---- MODULE Spec2Model ----
(***************************************************************************)
(* Session-scoped intent router of src/api/main.py: the per-user domain    *)
(* selection kept in user_sessions, the keyword guardrail topic_guardrail  *)
(* attached to the manager agent, and the message handler main().          *)
(*                                                                         *)
(* Texts are TLA+ strings; Python's str operations (lower, strip, `in`,    *)
(* startswith, f-string concatenation) are computed character by          *)
(* character with Len, SubSeq and \o.                                      *)
(***************************************************************************)
EXTENDS Integers, Sequences, FiniteSets, TLC

(***************************************************************************)
(* Bounds of the model.                                                    *)
(***************************************************************************)
\* Number of messages the transport delivers in one behaviour.
MaxMsgs == 3
\* Number of handler coroutines that can exist per user at one time.
NumSlots == 2

\* Number of messages delivered in one behaviour in which a user's messages
\* are not serialized.
MaxRaceMsgs == 4

Users == {"u1", "u2"}
Slots == 1..NumSlots
Handlers == Users \X Slots

\* Message contents the transport delivers (message.content).
Texts ==
  { "I need help with web development",
    "what's the weather today",
    "I want marketing help",
    "write me a poem about cats",
    "Content MARKETING plan",
    "  Web writing ",
    "html seo blog",
    "App Development",
    "creative Writing" }

\* Values of str(result.final_output) the manager run can return.
Outputs ==
  { "Here is a plan for your request.",
    "Guardrail: request is off-topic",
    "guardrail: lower-case is no sentinel" }

\* str(e) of the exceptions the two inference calls can raise.
GuardrailFailure == "guardrail model: request timed out"
ManagerFailure == "manager model: request timed out"

(***************************************************************************)
(* Python str operations.                                                  *)
(***************************************************************************)
UpperLetters == "ABCDEFGHIJKLMNOPQRSTUVWXYZ"
LowerLetters == "abcdefghijklmnopqrstuvwxyz"

\* str.lower() on one character.
LowerChar(c) ==
  IF \E i \in 1..Len(UpperLetters) : SubSeq(UpperLetters, i, i) = c
  THEN LET i == CHOOSE j \in 1..Len(UpperLetters) : SubSeq(UpperLetters, j, j) = c
       IN  SubSeq(LowerLetters, i, i)
  ELSE c

\* str.lower()
RECURSIVE Lower(_)
Lower(s) ==
  IF Len(s) = 0 THEN ""
  ELSE LowerChar(SubSeq(s, 1, 1)) \o Lower(SubSeq(s, 2, Len(s)))

\* str.strip(): leading and trailing whitespace removed.
RECURSIVE Strip(_)
Strip(s) ==
  IF Len(s) = 0 THEN ""
  ELSE IF SubSeq(s, 1, 1) = " " THEN Strip(SubSeq(s, 2, Len(s)))
  ELSE IF SubSeq(s, Len(s), Len(s)) = " " THEN Strip(SubSeq(s, 1, Len(s) - 1))
  ELSE s

\* `kw in s` on strings: kw is a substring of s.
In(kw, s) ==
  \E i \in 1..(Len(s) - Len(kw) + 1) : SubSeq(s, i, i + Len(kw) - 1) = kw

\* Variant of StartsWith that compares without regard to case.
StartsWithIgnoreCase(s, prefix) ==
  /\ Len(s) >= Len(prefix)
  /\ Lower(SubSeq(s, 1, Len(prefix))) = Lower(prefix)

\* s.startswith(prefix)
StartsWith(s, prefix) ==
  /\ Len(s) >= Len(prefix)
  /\ SubSeq(s, 1, Len(prefix)) = prefix

(***************************************************************************)
(* Domain registry and messages.                                           *)
(***************************************************************************)
Domains == {"WebDeveloper", "DigitalMarketer", "ContentWriter"}

\* The dict domain_keywords.
domain_keywords ==
  [ WebDeveloper |->
      <<"website", "frontend", "backend", "html", "css", "javascript", "react", "next.js">>,
    DigitalMarketer |->
      <<"seo", "marketing", "social media", "ad", "campaign", "ppc", "content strategy">>,
    ContentWriter |->
      <<"blog", "article", "content", "write", "copywriting", "post">> ]

\* Absence of a key in user_sessions.
NoEntry == "<absent>"

ProcessingMsg == "⏳ Processing your request..."
RejectionMsg == "Sorry, I can only help with Web Development, Marketing, or Content Writing."
RepromptMsg == "Please choose one: Web Development, Marketing, or Content Writing."
guard_prefix == "Guardrail:"

\* The acknowledgement sent after a successful selection.
AckMsg(d) ==
  CASE d = "WebDeveloper" -> "Great! You chose Web Development."
    [] d = "DigitalMarketer" -> "Great! You chose Marketing."
    [] d = "ContentWriter" -> "Great! You chose Content Writing."

\* Variant of ErrorMsg that drops the exception's text.
ErrorMsgNoCause(e) == "Error: "

\* f"Error: {e}"
ErrorMsg(e) == "Error: " \o e

\* str(KeyError(user_id))
KeyErrorText(u) == "'" \o u \o "'"

VARIABLES
  user_sessions,  \* the dict user_sessions; NoEntry where the key is absent
  handler,        \* per coroutine of main(): its position and locals
  delivered,      \* number of messages delivered so far
  selections,     \* history: per user, how many times a domain was stored
  runs            \* history: per user, manager runs since the last store

vars == <<user_sessions, handler, delivered, selections, runs>>

(***************************************************************************)
(* Domain selection and the guardrail.                                     *)
(***************************************************************************)
\* Variant of SelectDomain whose first test leaves out 'development'.
SelectDomainNoDevelopment(text_lower) ==
  IF In("web", text_lower) THEN "WebDeveloper"
  ELSE IF In("marketing", text_lower) THEN "DigitalMarketer"
  ELSE IF In("content", text_lower) \/ In("writing", text_lower) THEN "ContentWriter"
  ELSE NoEntry

\* Variant of SelectDomain that tests the branches in the opposite order.
SelectDomainReversed(text_lower) ==
  IF In("content", text_lower) \/ In("writing", text_lower) THEN "ContentWriter"
  ELSE IF In("marketing", text_lower) THEN "DigitalMarketer"
  ELSE IF In("web", text_lower) \/ In("development", text_lower) THEN "WebDeveloper"
  ELSE NoEntry

\* Variant of SelectDomain whose last branch is a plain else.
SelectDomainDefault(text_lower) ==
  IF In("web", text_lower) \/ In("development", text_lower) THEN "WebDeveloper"
  ELSE IF In("marketing", text_lower) THEN "DigitalMarketer"
  ELSE "ContentWriter"

\* Variant of SelectDomain that matches the keywords of domain_keywords, in
\* the order of the dict.
SelectDomainRegistry(text_lower) ==
  IF \E i \in 1..Len(domain_keywords["WebDeveloper"]) :
       In(domain_keywords["WebDeveloper"][i], text_lower)
  THEN "WebDeveloper"
  ELSE IF \E i \in 1..Len(domain_keywords["DigitalMarketer"]) :
            In(domain_keywords["DigitalMarketer"][i], text_lower)
  THEN "DigitalMarketer"
  ELSE IF \E i \in 1..Len(domain_keywords["ContentWriter"]) :
            In(domain_keywords["ContentWriter"][i], text_lower)
  THEN "ContentWriter"
  ELSE NoEntry

\* The if/elif chain of main() on text_lower; NoEntry when no branch matches.
SelectDomain(text_lower) ==
  IF In("web", text_lower) \/ In("development", text_lower) THEN "WebDeveloper"
  ELSE IF In("marketing", text_lower) THEN "DigitalMarketer"
  ELSE IF In("content", text_lower) \/ In("writing", text_lower) THEN "ContentWriter"
  ELSE NoEntry

\* The message sent by the selection branch that was taken.
SelectionReply(d) == IF d = NoEntry THEN RepromptMsg ELSE AckMsg(d)

\* Variant of KeywordAllowed that stops after the keywords of the first
\* domain of the dict.
KeywordAllowedFirstDomain(input) ==
  LET lower == Lower(input)
  IN  \E i \in 1..Len(domain_keywords["WebDeveloper"]) :
        In(domain_keywords["WebDeveloper"][i], lower)

\* topic_guardrail: allowed = any(kw in lower for kws in ... for kw in kws),
\* on the input of the guarded run.
KeywordAllowed(input) ==
  LET lower == Lower(input)
  IN  \E d \in DOMAIN domain_keywords :
        \E i \in 1..Len(domain_keywords[d]) : In(domain_keywords[d][i], lower)

\* Variant of TripwireTriggered without the negation.
TripwireTriggeredInverted(input) == KeywordAllowed(input)

\* topic_guardrail: tripwire_triggered = not allowed.
TripwireTriggered(input) == ~KeywordAllowed(input)

\* prompt = f"Assign to {routed}: {message.content}"
Prompt(routed, content) == "Assign to " \o routed \o ": " \o content

NoRun == [kind |-> "none", text |-> ""]

\* The values the handler computes from a message's content, tabulated once
\* per content: the domain the selection branch picks for it, and whether
\* the guardrail trips on the prompt built from it for a stored domain.
Selection == [t \in Texts |-> SelectDomain(Lower(Strip(t)))]
Tripped == [d \in Domains, t \in Texts |-> TripwireTriggered(Prompt(d, t))]

\* The ways Runner.run_sync(manager, prompt, ...) can end.  The guardrail's
\* own Runner.run(guardrail_agent, ...) either returns or raises before
\* topic_guardrail reaches its return statement; the manager's model call
\* either returns an output or raises; a triggered tripwire raises
\* InputGuardrailTripwireTriggered.
RunOutcomes(routed, content) ==
  {[kind |-> "error", text |-> GuardrailFailure],
   [kind |-> "error", text |-> ManagerFailure]}
  \cup
  (IF Tripped[routed, content]
   THEN {[kind |-> "tripwire", text |-> ""]}
   ELSE {[kind |-> "output", text |-> o] : o \in Outputs})

\* The final message of the try/except of main() for one outcome of the run.
FinalMessage(r) ==
  CASE r.kind = "output" ->
         IF StartsWith(r.text, guard_prefix) THEN RejectionMsg ELSE r.text
    [] r.kind = "tripwire" -> RejectionMsg
    [] r.kind = "error" -> ErrorMsg(r.text)

\* Variant of Pop that removes nothing.
PopNone(sessions, u) == sessions

\* Variant of Pop that empties the dict (user_sessions.clear()).
PopAll(sessions, u) == [v \in DOMAIN sessions |-> NoEntry]

\* user_sessions.pop(user_id, None)
Pop(sessions, u) == [sessions EXCEPT ![u] = NoEntry]

(***************************************************************************)
(* The handler main(), one step per stretch of code between two awaits.    *)
(***************************************************************************)
\* gen is history: the value of selections[user] when the handler read
\* user_sessions[user_id] in the try block, 0 when it did not.
IdleHandler ==
  [pc |-> "idle", text |-> "", prompt |-> "", run |-> NoRun, out |-> <<>>, gen |-> 0]

Free(h) == handler[h].pc \in {"idle", "done"}

\* The coroutine slot a newly delivered message of u runs in.
FreeSlot(u, s) ==
  /\ Free(<<u, s>>)
  /\ \A r \in Slots : r < s => ~Free(<<u, r>>)

\* The transport hands a user's next message over only when the handler of
\* the previous one has returned.
Serialized(u) == \A s \in Slots : Free(<<u, s>>)

Init ==
  /\ user_sessions = [u \in Users |-> NoEntry]
  /\ handler = [h \in Handlers |-> IdleHandler]
  /\ delivered = 0
  /\ selections = [u \in Users |-> 0]
  /\ runs = [u \in Users |-> 0]

\* Variant of Select that creates an entry without domain when no branch
\* matches.
SelectCreatesEntry(u, s, t) ==
  /\ FreeSlot(u, s)
  /\ user_sessions[u] = NoEntry
  /\ LET d == Selection[t]
     IN  /\ user_sessions' = [user_sessions EXCEPT ![u] = IF d = NoEntry THEN "" ELSE d]
         /\ handler' = [handler EXCEPT ![<<u, s>>] =
                          [pc |-> "selected", text |-> t, prompt |-> "",
                           run |-> NoRun, out |-> <<SelectionReply(d)>>, gen |-> 0]]
         /\ selections' = IF d = NoEntry THEN selections
                          ELSE [selections EXCEPT ![u] = @ + 1]
         /\ runs' = IF d = NoEntry THEN runs ELSE [runs EXCEPT ![u] = 0]
  /\ delivered' = delivered + 1

\* main(), user_id not in user_sessions: the selection branch up to its send.
Select(u, s, t) ==
  /\ FreeSlot(u, s)
  /\ user_sessions[u] = NoEntry
  /\ LET d == Selection[t]
     IN  /\ user_sessions' = IF d = NoEntry THEN user_sessions
                             ELSE [user_sessions EXCEPT ![u] = d]
         /\ handler' = [handler EXCEPT ![<<u, s>>] =
                          [pc |-> "selected", text |-> t, prompt |-> "",
                           run |-> NoRun, out |-> <<SelectionReply(d)>>, gen |-> 0]]
         /\ selections' = IF d = NoEntry THEN selections
                          ELSE [selections EXCEPT ![u] = @ + 1]
         /\ runs' = IF d = NoEntry THEN runs ELSE [runs EXCEPT ![u] = 0]
  /\ delivered' = delivered + 1

\* Variant of SelectReturn without the return: the handler goes on to the
\* guarded part with the message that made the selection.
SelectFallThrough(h) ==
  /\ handler[h].pc = "selected"
  /\ handler' = [handler EXCEPT ![h].pc = "processing",
                                ![h].out = Append(@, ProcessingMsg)]
  /\ UNCHANGED <<user_sessions, delivered, selections, runs>>

\* main(), the return that ends the selection branch.
SelectReturn(h) ==
  /\ handler[h].pc = "selected"
  /\ handler' = [handler EXCEPT ![h].pc = "done"]
  /\ UNCHANGED <<user_sessions, delivered, selections, runs>>

\* Variant of Begin in which the selection words of a guarded message
\* overwrite the stored domain.
BeginReselect(u, s, t) ==
  /\ FreeSlot(u, s)
  /\ user_sessions[u] # NoEntry
  /\ user_sessions' = IF Selection[t] = NoEntry THEN user_sessions
                      ELSE [user_sessions EXCEPT ![u] = Selection[t]]
  /\ handler' = [handler EXCEPT ![<<u, s>>] =
                   [pc |-> "processing", text |-> t, prompt |-> "",
                    run |-> NoRun, out |-> <<ProcessingMsg>>, gen |-> 0]]
  /\ delivered' = delivered + 1
  /\ UNCHANGED <<selections, runs>>

\* main(), user_id in user_sessions: up to the send of the processing notice.
Begin(u, s, t) ==
  /\ FreeSlot(u, s)
  /\ user_sessions[u] # NoEntry
  /\ handler' = [handler EXCEPT ![<<u, s>>] =
                   [pc |-> "processing", text |-> t, prompt |-> "",
                    run |-> NoRun, out |-> <<ProcessingMsg>>, gen |-> 0]]
  /\ delivered' = delivered + 1
  /\ UNCHANGED <<user_sessions, selections, runs>>

\* Variant of Dispatch that removes the entry in the try block, before the
\* final message is sent.
DispatchPopFirst(h) ==
  /\ handler[h].pc = "processing"
  /\ IF user_sessions[h[1]] = NoEntry
     THEN LET r == [kind |-> "error", text |-> KeyErrorText(h[1])]
          IN  /\ handler' = [handler EXCEPT ![h].pc = "replied", ![h].run = r,
                               ![h].out = Append(@, FinalMessage(r))]
              /\ UNCHANGED runs
     ELSE LET p == Prompt(user_sessions[h[1]], handler[h].text)
          IN  /\ \E r \in RunOutcomes(user_sessions[h[1]], handler[h].text) :
                   handler' = [handler EXCEPT ![h].pc = "replied", ![h].prompt = p,
                                 ![h].run = r, ![h].out = Append(@, FinalMessage(r)),
                                 ![h].gen = selections[h[1]]]
              /\ runs' = [runs EXCEPT ![h[1]] = @ + 1]
  /\ user_sessions' = [user_sessions EXCEPT ![h[1]] = NoEntry]
  /\ UNCHANGED <<delivered, selections>>

\* main(), the try block and its except clauses up to the send of the final
\* message.  The lookup user_sessions[user_id] raises KeyError when the key
\* is gone, which the clause `except Exception` catches like any other.
Dispatch(h) ==
  /\ handler[h].pc = "processing"
  /\ IF user_sessions[h[1]] = NoEntry
     THEN LET r == [kind |-> "error", text |-> KeyErrorText(h[1])]
          IN  /\ handler' = [handler EXCEPT ![h].pc = "replied", ![h].run = r,
                               ![h].out = Append(@, FinalMessage(r))]
              /\ UNCHANGED runs
     ELSE LET p == Prompt(user_sessions[h[1]], handler[h].text)
          IN  /\ \E r \in RunOutcomes(user_sessions[h[1]], handler[h].text) :
                   handler' = [handler EXCEPT ![h].pc = "replied", ![h].prompt = p,
                                 ![h].run = r, ![h].out = Append(@, FinalMessage(r)),
                                 ![h].gen = selections[h[1]]]
              /\ runs' = [runs EXCEPT ![h[1]] = @ + 1]
  /\ UNCHANGED <<user_sessions, delivered, selections>>

\* main(), the finally clause, after which the handler returns.
Finally(h) ==
  /\ handler[h].pc = "replied"
  /\ user_sessions' = Pop(user_sessions, h[1])
  /\ handler' = [handler EXCEPT ![h].pc = "done"]
  /\ UNCHANGED <<delivered, selections, runs>>

\* Messages of one user are handled one at a time; users interleave.
Next ==
  \/ \E u \in Users, s \in Slots, t \in Texts :
       delivered < MaxMsgs /\ Serialized(u) /\ Select(u, s, t)
  \/ \E u \in Users, s \in Slots, t \in Texts :
       delivered < MaxMsgs /\ Serialized(u) /\ Begin(u, s, t)
  \/ \E h \in Handlers : SelectReturn(h)
  \/ \E h \in Handlers : Dispatch(h)
  \/ \E h \in Handlers : Finally(h)

Spec == Init /\ [][Next]_vars

\* Contents delivered when a user's messages are not serialized: one that
\* selects and trips the guardrail, one that selects and is admitted, one
\* that selects nothing and is admitted.
RaceTexts ==
  { "I need help with web development",
    "I want marketing help",
    "html seo blog" }

\* The transport starts a handler for every message as it arrives: handlers
\* of one user interleave at their awaited sends like those of different
\* users.
RaceNext ==
  \/ \E u \in Users, s \in Slots, t \in RaceTexts :
       delivered < MaxRaceMsgs /\ Select(u, s, t)
  \/ \E u \in Users, s \in Slots, t \in RaceTexts :
       delivered < MaxRaceMsgs /\ Begin(u, s, t)
  \/ \E h \in Handlers : SelectReturn(h)
  \/ \E h \in Handlers : Dispatch(h)
  \/ \E h \in Handlers : Finally(h)

RaceSpec == Init /\ [][RaceNext]_vars

\* The event loop resumes each coroutine whose awaited send has completed:
\* a handler that can take its next step eventually takes it.
Resume(h) == SelectReturn(h) \/ Dispatch(h) \/ Finally(h)

Fairness == \A h \in Handlers : WF_vars(Resume(h))

FairSpec == Spec /\ Fairness

TypeOK ==
  /\ user_sessions \in [Users -> Domains \cup {NoEntry}]
  /\ delivered \in Nat
  /\ selections \in [Users -> Nat]
  /\ runs \in [Users -> Nat]
  /\ \A h \in Handlers : handler[h].pc \in {"idle", "selected", "processing", "replied", "done"}

(***************************************************************************)
(* Vocabulary of the properties.                                           *)
(***************************************************************************)
UserOf(h) == h[1]

\* h handled (or is handling) a guarded request and has sent its final message.
Answered(h) == handler[h].pc \in {"replied", "done"} /\ handler[h].run # NoRun

\* h has returned from a guarded request.
GuardedDone(h) == handler[h].pc = "done" /\ handler[h].run # NoRun

\* h took the selection branch and has sent its reply.
SelectionMade(h) == handler[h].pc \in {"selected", "done"} /\ handler[h].run = NoRun

\* Contents in which the lowercased text holds the given word.
TextsWith(word) == {t \in Texts : In(word, Lower(t))}

\* Contents holding no keyword of domain_keywords, whatever the domain.
NoKeywordTexts ==
  {t \in Texts :
     \A d \in Domains : \A i \in 1..Len(domain_keywords[d]) :
       ~In(domain_keywords[d][i], Lower(t))}

\* Contents holding no keyword of the marketing domain.
NoMarketingKeywordTexts ==
  {t \in Texts :
     \A i \in 1..Len(domain_keywords["DigitalMarketer"]) :
       ~In(domain_keywords["DigitalMarketer"][i], Lower(t))}

WebTexts == TextsWith("web") \cup TextsWith("development")
MarketingTexts == TextsWith("marketing")
WritingTexts == TextsWith("content") \cup TextsWith("writing")
NoSelectionTexts == Texts \ (WebTexts \cup MarketingTexts \cup WritingTexts)

\* Contents holding a keyword of domain d of the registry.
RegistryTexts(d) ==
  {t \in Texts : \E i \in 1..Len(domain_keywords[d]) : In(domain_keywords[d][i], Lower(t))}

\* The first domain, in the order of the dict, of which the content holds a
\* keyword; NoEntry when it holds none.
RegistryDomain ==
  [t \in Texts |->
     IF t \in RegistryTexts("WebDeveloper") THEN "WebDeveloper"
     ELSE IF t \in RegistryTexts("DigitalMarketer") THEN "DigitalMarketer"
     ELSE IF t \in RegistryTexts("ContentWriter") THEN "ContentWriter"
     ELSE NoEntry]

\* Contents holding a keyword of at least one domain of the registry.
KeywordTexts == UNION {RegistryTexts(e) : e \in Domains}

(***************************************************************************)
(* C1: after the handler of a guarded request has finished, its user has   *)
(* no entry in user_sessions, whether the request was answered by an       *)
(* output, rejected or failed; the next message of that user is handled    *)
(* by the selection branch.                                                *)
(***************************************************************************)
C1_ClearedAfterGuarded ==
  /\ [](\A h \in Handlers : GuardedDone(h) => user_sessions[UserOf(h)] = NoEntry)
  /\ [][\A h \in Handlers :
          (GuardedDone(h) /\ handler'[h] # handler[h]) => handler'[h].pc = "selected"]_vars

C1_Witness ==
  \E h \in Handlers :
    /\ GuardedDone(h)
    /\ handler[h].run.kind = "tripwire"
    /\ user_sessions[UserOf(h)] = NoEntry
    /\ delivered = 2

(***************************************************************************)
(* C2: a guarded request whose user text holds no keyword of any domain    *)
(* is never admitted, whatever the selected domain: when both inference    *)
(* calls return, the tripwire is triggered and the reply is the rejection  *)
(* message.                                                                *)
(***************************************************************************)
C2_NoKeywordNeverAdmitted ==
  \A h \in Handlers :
    (Answered(h) /\ handler[h].text \in NoKeywordTexts /\ handler[h].run.kind # "error")
      => /\ handler[h].run.kind = "tripwire"
         /\ handler[h].out = <<ProcessingMsg, RejectionMsg>>

(***************************************************************************)
(* C3: a selection message holding "web" or "development" stores           *)
(* WebDeveloper for its user, and the guarded request that follows is run  *)
(* with the prompt that names WebDeveloper and carries the user's text.    *)
(***************************************************************************)
C3_WebSelection ==
  /\ [](\A h \in Handlers :
          (SelectionMade(h) /\ handler[h].text \in WebTexts)
            => /\ user_sessions[UserOf(h)] = "WebDeveloper"
               /\ handler[h].out = <<"Great! You chose Web Development.">>)
  /\ [][\A h \in Handlers :
          (/\ handler[h].pc = "processing"
           /\ handler'[h].pc = "replied"
           /\ user_sessions[UserOf(h)] = "WebDeveloper")
            => /\ handler'[h].prompt = "Assign to WebDeveloper: " \o handler[h].text
               /\ (handler'[h].run.kind = "output"
                     => handler'[h].run.text \in Outputs)]_vars

C3_Witness ==
  \E h \in Handlers :
    /\ handler[h].pc = "replied"
    /\ handler[h].run.kind = "output"
    /\ handler[h].prompt = "Assign to WebDeveloper: html seo blog"
    /\ user_sessions[UserOf(h)] = "WebDeveloper"

(***************************************************************************)
(* C4 (as stated): a user who selected marketing and sends a request with  *)
(* no marketing keyword is not admitted: when both inference calls return, *)
(* the reply is the rejection message and no responder output is sent.     *)
(***************************************************************************)
C4_NoMarketingKeywordRejected ==
  \A h \in Handlers :
    (/\ Answered(h)
     /\ handler[h].prompt = Prompt("DigitalMarketer", handler[h].text)
     /\ handler[h].text \in NoMarketingKeywordTexts
     /\ handler[h].run.kind # "error")
      => /\ handler[h].run.kind = "tripwire"
         /\ handler[h].out = <<ProcessingMsg, RejectionMsg>>

(***************************************************************************)
(* C4 (amended): a user who selected marketing and sends a request with    *)
(* no keyword of any domain gets no responder output: the tripwire is      *)
(* triggered and the reply is the rejection message, or an inference call  *)
(* raised and the reply is the error message; the session entry is gone    *)
(* once the handler has returned.                                          *)
(***************************************************************************)
C4_NoKeywordRejectedForMarketing ==
  \A h \in Handlers :
    (/\ Answered(h)
     /\ handler[h].prompt = Prompt("DigitalMarketer", handler[h].text)
     /\ handler[h].text \in NoKeywordTexts)
      => /\ handler[h].run.kind \in {"tripwire", "error"}
         /\ handler[h].run.kind = "tripwire"
              => handler[h].out = <<ProcessingMsg, RejectionMsg>>
         /\ handler[h].run.kind = "error"
              => handler[h].out = <<ProcessingMsg, "Error: " \o handler[h].run.text>>
         /\ handler[h].pc = "done" => user_sessions[UserOf(h)] = NoEntry

C4_Witness ==
  \E h \in Handlers :
    /\ GuardedDone(h)
    /\ handler[h].prompt = "Assign to DigitalMarketer: what's the weather today"
    /\ handler[h].run.kind = "tripwire"
    /\ handler[h].out = <<ProcessingMsg, RejectionMsg>>
    /\ user_sessions[UserOf(h)] = NoEntry

(***************************************************************************)
(* C5: when an inference call of a guarded request raises, the handler     *)
(* sends "Error: " followed by the exception's text, returns, and removes  *)
(* its user's session entry and no other user's.                           *)
(***************************************************************************)
C5_InferenceFailureContained ==
  /\ [](\A h \in Handlers :
          (Answered(h) /\ handler[h].run.kind = "error")
            => /\ handler[h].out = <<ProcessingMsg, "Error: " \o handler[h].run.text>>
               /\ handler[h].run.text # ""
               /\ handler[h].pc = "done" => user_sessions[UserOf(h)] = NoEntry)
  /\ [][\A h \in Handlers :
          (/\ handler[h].pc = "replied"
           /\ handler[h].run.kind = "error"
           /\ handler'[h].pc # "replied")
            => /\ handler'[h].pc = "done"
               /\ \A v \in Users \ {UserOf(h)} : user_sessions'[v] = user_sessions[v]]_vars

C5_Witness ==
  \E h \in Handlers :
    /\ GuardedDone(h)
    /\ handler[h].run = [kind |-> "error", text |-> ManagerFailure]
    /\ user_sessions[UserOf(h)] = NoEntry
    /\ \E v \in Users \ {UserOf(h)} : user_sessions[v] # NoEntry

(***************************************************************************)
(* C6: a message of a user without session entry that matches no selection *)
(* keyword gets the re-prompt, changes nothing in user_sessions and runs   *)
(* no inference call.                                                      *)
(***************************************************************************)
C6_NoMatchLeavesSessions ==
  /\ [](\A h \in Handlers :
          (SelectionMade(h) /\ handler[h].text \in NoSelectionTexts)
            => /\ handler[h].out = <<RepromptMsg>>
               /\ handler[h].prompt = ""
               /\ user_sessions[UserOf(h)] = NoEntry)
  /\ [][\A h \in Handlers :
          (/\ handler'[h].pc = "selected"
           /\ handler[h].pc # "selected"
           /\ handler'[h].text \in NoSelectionTexts)
            => user_sessions' = user_sessions]_vars

C6_Witness ==
  \E h \in Handlers :
    /\ handler[h].pc = "done"
    /\ handler[h].text = "what's the weather today"
    /\ handler[h].out = <<RepromptMsg>>
    /\ user_sessions[UserOf(h)] = NoEntry

(***************************************************************************)
(* C7: a step in which no handler of user u moves leaves u's entry of      *)
(* user_sessions as it is, and a guarded request is run with the prompt    *)
(* built from its own user's entry.                                        *)
(***************************************************************************)
C7_UsersDoNotInterfere ==
  /\ [][\A u \in Users :
          (\A s \in Slots : handler'[<<u, s>>] = handler[<<u, s>>])
            => user_sessions'[u] = user_sessions[u]]_vars
  /\ [](\A h \in Handlers :
          handler[h].pc = "replied"
            => /\ user_sessions[UserOf(h)] # NoEntry
               /\ handler[h].prompt = Prompt(user_sessions[UserOf(h)], handler[h].text))

C7_Witness ==
  \E h \in Handlers : \E g \in Handlers :
    /\ UserOf(h) # UserOf(g)
    /\ handler[g].pc = "selected"
    /\ user_sessions[UserOf(g)] = "WebDeveloper"
    /\ handler[h].pc = "replied"
    /\ handler[h].run.kind = "output"
    /\ handler[h].prompt = Prompt("DigitalMarketer", handler[h].text)
    /\ user_sessions[UserOf(h)] = "DigitalMarketer"

(***************************************************************************)
(* C8: when the guardrail's own classification call raises, the request    *)
(* is still decided by the keyword check: a prompt with a keyword gets a   *)
(* responder output, a prompt without gets the rejection message.          *)
(***************************************************************************)
C8_GuardrailFailureKeepsKeywordResult ==
  \A h \in Handlers :
    (Answered(h) /\ handler[h].run = [kind |-> "error", text |-> GuardrailFailure])
      => handler[h].out[2] \in (Outputs \cup {RejectionMsg})

(***************************************************************************)
(* C9: every guarded request that has started eventually has its final     *)
(* reply sent and its user's session entry removed, provided the event     *)
(* loop keeps resuming the handlers and every inference call ends.         *)
(***************************************************************************)
C9_NoUserStuck ==
  \A h \in Handlers :
    (handler[h].pc = "processing")
      ~> (/\ handler[h].pc = "done"
          /\ Len(handler[h].out) = 2
          /\ user_sessions[UserOf(h)] = NoEntry)

C9_Witness ==
  \E h \in Handlers :
    /\ GuardedDone(h)
    /\ handler[h].run.kind = "output"
    /\ Len(handler[h].out) = 2
    /\ user_sessions[UserOf(h)] = NoEntry

(***************************************************************************)
(* C10: domain selection takes the first matching branch in the order web  *)
(* development, marketing, content writing, matching substrings of the     *)
(* lowercased text; a text matching no branch selects nothing.             *)
(***************************************************************************)
C10_FirstMatchWins ==
  \A h \in Handlers :
    handler[h].pc = "selected"
      => LET t == handler[h].text
             d == user_sessions[UserOf(h)]
         IN  /\ t \in WebTexts => d = "WebDeveloper"
             /\ t \in MarketingTexts \ WebTexts => d = "DigitalMarketer"
             /\ t \in WritingTexts \ (WebTexts \cup MarketingTexts) => d = "ContentWriter"
             /\ t \in NoSelectionTexts => d = NoEntry
             /\ t = "Content MARKETING plan" => d = "DigitalMarketer"
             /\ t = "  Web writing " => d = "WebDeveloper"

C10_Witness ==
  \E h \in Handlers : \E g \in Handlers :
    /\ handler[h].pc = "selected"
    /\ handler[h].text = "Content MARKETING plan"
    /\ user_sessions[UserOf(h)] = "DigitalMarketer"
    /\ handler[g].pc = "selected"
    /\ handler[g].text = "  Web writing "
    /\ user_sessions[UserOf(g)] = "WebDeveloper"

(***************************************************************************)
(* C11 (as stated): the selection branch matches the message against the   *)
(* keywords of domain_keywords: a message of a user without session entry  *)
(* that holds a keyword of a domain stores that domain (the first one in   *)
(* the order of the dict).                                                 *)
(***************************************************************************)
C11_SelectionByRegistryKeyword ==
  \A h \in Handlers :
    (handler[h].pc = "selected" /\ RegistryDomain[handler[h].text] # NoEntry)
      => user_sessions[UserOf(h)] = RegistryDomain[handler[h].text]

(***************************************************************************)
(* C11 (amended): the selection branch matches only the words "web",       *)
(* "development", "marketing", "content" and "writing": a message stores a *)
(* domain exactly when it holds one of them, and a message that holds      *)
(* keywords of domain_keywords but none of these words ("html seo blog")   *)
(* stores nothing and gets the re-prompt.                                  *)
(***************************************************************************)
C11_SelectionBySelectionWord ==
  \A h \in Handlers :
    handler[h].pc = "selected"
      => /\ user_sessions[UserOf(h)] # NoEntry <=> handler[h].text \notin NoSelectionTexts
         /\ (handler[h].text \in NoSelectionTexts \ NoKeywordTexts)
              => /\ user_sessions[UserOf(h)] = NoEntry
                 /\ handler[h].out = <<RepromptMsg>>

C11_Witness ==
  \E h \in Handlers :
    /\ handler[h].pc = "selected"
    /\ handler[h].text = "html seo blog"
    /\ handler[h].out = <<RepromptMsg>>
    /\ user_sessions[UserOf(h)] = NoEntry

(***************************************************************************)
(* C12: while a user has a session entry, no message changes the stored    *)
(* domain into another domain: a guarded message leaves user_sessions as   *)
(* it is when it arrives and when it is run, even when its text holds the  *)
(* selection word of another domain, and it is run with the prompt that    *)
(* names the stored domain.                                                *)
(***************************************************************************)
C12_DomainWrittenOnce ==
  /\ [][\A u \in Users :
          user_sessions[u] # NoEntry => user_sessions'[u] \in {user_sessions[u], NoEntry}]_vars
  /\ [][\A h \in Handlers :
          (handler'[h].pc = "processing" /\ handler[h].pc # "processing")
            => user_sessions' = user_sessions]_vars
  /\ [][\A h \in Handlers :
          (handler[h].pc = "processing" /\ handler'[h].pc = "replied")
            => /\ user_sessions' = user_sessions
               /\ handler'[h].prompt = Prompt(user_sessions[UserOf(h)], handler[h].text)]_vars

C12_Witness ==
  \E h \in Handlers :
    /\ handler[h].pc = "replied"
    /\ handler[h].prompt = "Assign to WebDeveloper: I want marketing help"
    /\ handler[h].run.kind = "output"
    /\ user_sessions[UserOf(h)] = "WebDeveloper"

(***************************************************************************)
(* C13: a guarded request whose text holds a keyword of any domain of      *)
(* domain_keywords does not trigger the tripwire, whatever domain its user *)
(* selected, and is run with the prompt naming the selected domain.        *)
(***************************************************************************)
C13_AnyDomainKeywordAdmits ==
  \A h \in Handlers : \A d \in Domains :
    (/\ Answered(h)
     /\ handler[h].prompt = Prompt(d, handler[h].text)
     /\ handler[h].text \in KeywordTexts)
      => /\ handler[h].run.kind # "tripwire"
         /\ handler[h].pc = "replied" => user_sessions[UserOf(h)] = d
         /\ handler[h].run.kind = "output" => handler[h].run.text \in Outputs

C13_Witness ==
  \E h \in Handlers :
    /\ Answered(h)
    /\ handler[h].prompt = "Assign to WebDeveloper: write me a poem about cats"
    /\ handler[h].run.kind = "output"
    /\ handler[h].out = <<ProcessingMsg, "Here is a plan for your request.">>

(***************************************************************************)
(* C14: an output of the manager run that starts with "Guardrail:" is not  *)
(* sent: the rejection message is sent in its place; every other output    *)
(* is sent as it is.                                                       *)
(***************************************************************************)
C14_SentinelReplaced ==
  \A h \in Handlers :
    (Answered(h) /\ handler[h].run.kind = "output")
      => /\ Len(handler[h].out) = 2
         /\ handler[h].run.text = "Guardrail: request is off-topic"
              => handler[h].out[2] = RejectionMsg
         /\ handler[h].run.text # "Guardrail: request is off-topic"
              => handler[h].out[2] = handler[h].run.text
         /\ handler[h].out[2] # "Guardrail: request is off-topic"

C14_Witness ==
  \E h \in Handlers :
    /\ GuardedDone(h)
    /\ handler[h].run = [kind |-> "output", text |-> "Guardrail: request is off-topic"]
    /\ handler[h].out = <<ProcessingMsg, RejectionMsg>>

(***************************************************************************)
(* C15: a message that selects a domain is handled by the selection branch *)
(* alone: the handler has stored the domain, sent the one acknowledgement  *)
(* and run no guardrail or manager call, and its only further step is the  *)
(* return; this holds too when the text itself holds a guardrail keyword.  *)
(***************************************************************************)
C15_SelectionConsumesMessage ==
  /\ [](\A h \in Handlers :
          (SelectionMade(h) /\ handler[h].text \notin NoSelectionTexts)
            => /\ Len(handler[h].out) = 1
               /\ \E d \in Domains : handler[h].out[1] = AckMsg(d)
               /\ handler[h].run = NoRun
               /\ handler[h].prompt = "")
  /\ [][\A h \in Handlers :
          (handler[h].pc = "selected" /\ handler'[h] # handler[h])
            => handler'[h] = [handler[h] EXCEPT !.pc = "done"]]_vars

C15_Witness ==
  \E h \in Handlers :
    /\ handler[h].pc = "done"
    /\ handler[h].text = "I want marketing help"
    /\ handler[h].text \notin NoKeywordTexts
    /\ handler[h].out = <<"Great! You chose Marketing.">>
    /\ handler[h].run = NoRun
    /\ user_sessions[UserOf(h)] = "DigitalMarketer"

(***************************************************************************)
(* C16: whatever the interleaving of the handlers of one user, the lookup  *)
(* user_sessions[user_id] of a guarded handler finds the key: no guarded   *)
(* handler ends in the KeyError of that lookup.                            *)
(***************************************************************************)
C16_LookupNeverFails ==
  \A h \in Handlers :
    Answered(h)
      => /\ handler[h].run # [kind |-> "error", text |-> KeyErrorText(UserOf(h))]
         /\ handler[h].prompt # ""

(***************************************************************************)
(* C17: whatever the interleaving of the handlers of one user, at most one *)
(* manager run is made for the user between one stored selection and the   *)
(* next.                                                                   *)
(***************************************************************************)
C17_OneRunPerSelection == \A u \in Users : runs[u] <= 1

(***************************************************************************)
(* C18: whatever the interleaving of the handlers of one user, the pop of  *)
(* a guarded handler's finally clause removes an entry only when that      *)
(* entry was stored by the selection the handler read in its try block.    *)
(***************************************************************************)
C18_PopRemovesOwnSelection ==
  [][\A h \in Handlers :
       (/\ handler[h].pc = "replied"
        /\ handler'[h].pc = "done"
        /\ user_sessions[UserOf(h)] # NoEntry
        /\ \A s \in Slots : handler[<<UserOf(h), s>>].pc # "selected")
         => handler[h].gen = selections[UserOf(h)]]_vars

(***************************************************************************)
(* C19: a guarded handler sends the processing notice first and then       *)
(* exactly one final message, which is the output of the run, the          *)
(* rejection message or an "Error: ..." message; its user's entry is       *)
(* removed only in a step of a handler that has sent its final message.    *)
(***************************************************************************)
C19_ReplyOrder ==
  /\ [](\A h \in Handlers :
          /\ handler[h].pc = "processing" => handler[h].out = <<ProcessingMsg>>
          /\ Answered(h)
               => /\ Len(handler[h].out) = 2
                  /\ handler[h].out[1] = ProcessingMsg
                  /\ \/ handler[h].run.kind = "output" /\ handler[h].out[2] = handler[h].run.text
                     \/ handler[h].out[2] = RejectionMsg
                     \/ handler[h].run.kind = "error"
                          /\ handler[h].out[2] = "Error: " \o handler[h].run.text
          /\ handler[h].pc \in {"processing", "replied"}
               => user_sessions[UserOf(h)] # NoEntry)
  /\ [][\A u \in Users :
          (user_sessions[u] # NoEntry /\ user_sessions'[u] = NoEntry)
            => \E s \in Slots :
                 /\ handler[<<u, s>>].pc = "replied"
                 /\ Len(handler[<<u, s>>].out) = 2
                 /\ handler'[<<u, s>>] = [handler[<<u, s>>] EXCEPT !.pc = "done"]]_vars

C19_Witness ==
  \E h \in Handlers :
    /\ handler[h].pc = "replied"
    /\ handler[h].out = <<ProcessingMsg, "Here is a plan for your request.">>
    /\ user_sessions[UserOf(h)] # NoEntry

(***************************************************************************)
(* C20: every value stored in user_sessions is one of the three domains,   *)
(* and, with each user's messages handled one at a time, a user with no    *)
(* message in progress has an entry exactly when the last message handled  *)
(* for that user was a selection that stored a domain.                     *)
(***************************************************************************)
C20_ValuesAreDomains ==
  \A u \in Users :
    user_sessions[u] # NoEntry
      => user_sessions[u] \in {"WebDeveloper", "DigitalMarketer", "ContentWriter"}

\* C20, both parts: the stored values are domains, and an entry exists
\* exactly after a selection that stored one.
C20_EntryIffLastWasSelection ==
  /\ C20_ValuesAreDomains
  /\ \A u \in Users :
       Serialized(u)
         => (user_sessions[u] # NoEntry
               <=> \E s \in Slots :
                     /\ handler[<<u, s>>].pc = "done"
                     /\ handler[<<u, s>>].run = NoRun
                     /\ \E d \in Domains : handler[<<u, s>>].out = <<AckMsg(d)>>)

C20_Witness ==
  \E u \in Users : \E v \in Users :
    /\ Serialized(u)
    /\ user_sessions[u] = "ContentWriter"
    /\ Serialized(v)
    /\ user_sessions[v] = NoEntry
    /\ \E s \in Slots : GuardedDone(<<v, s>>)

====
